---- MODULE Spec2Model ----
(***************************************************************************)
(* Model of pkg/preprocessing/chat_completions/cgo_functions.go: the Go    *)
(* side of the bridge to the embedded Python interpreter.                  *)
(*                                                                         *)
(* Callers are goroutines (Threads).  Each call of Initialize, Finalize,   *)
(* RenderChatTemplate, FetchChatTemplate or ClearCaches runs its Go code   *)
(* up to a foreign (cgo) call in one step and the rest in the next; only   *)
(* the foreign calls touch state shared between goroutines.  The source    *)
(* file holds two copies of the package (lines 1-252 and 254-473); they    *)
(* make the same foreign calls, allocations and frees in the same order,   *)
(* and the line numbers below are those of the first copy.                *)
(*                                                                         *)
(* The C side (cgo_functions.h) is not part of the source: the effect of   *)
(* the Py_* entry points on the interpreter is modelled from the           *)
(* specification, and their replies are any reply the Go code can tell     *)
(* apart.                                                                  *)
(***************************************************************************)
EXTENDS Integers, Sequences, FiniteSets, TLC

\* number of goroutines that call into the component
NumThreads == 2

Threads == 1..NumThreads

----------------------------------------------------------------------------
\* Names of the things a call does, in the order it does them (trace[t]).

ReadMemStats == "runtime.ReadMemStats"
Marshal == "json.Marshal"
CString == "C.CString"
GoString == "C.GoString"
Unmarshal == "json.Unmarshal"
FreeReq == "C.free(cReqJSON)"
FreeRes == "C.free(cResult)"
Py_InitializeGo == "C.Py_InitializeGo"
Py_InitChatTemplateModule == "C.Py_InitChatTemplateModule"
Py_CleanupChatTemplateModule == "C.Py_CleanupChatTemplateModule"
Py_FinalizeGo == "C.Py_FinalizeGo"
Py_CallRenderJinjaTemplate == "C.Py_CallRenderJinjaTemplate"
Py_CallGetModelChatTemplate == "C.Py_CallGetModelChatTemplate"
Py_ClearCaches == "C.Py_ClearCaches"

\* A release of the request buffer through the interpreter's own allocator:
\* no statement of the code does this.
PyMemFreeReq == "C.PyMem_Free(cReqJSON)"

\* every release of a buffer: the function called and the buffer given to it
Releases ==
    [e \in {FreeReq, FreeRes, PyMemFreeReq} |->
        CASE e = FreeReq -> [fn |-> "C.free", buffer |-> "cReqJSON"]
          [] e = FreeRes -> [fn |-> "C.free", buffer |-> "cResult"]
          [] e = PyMemFreeReq -> [fn |-> "C.PyMem_Free", buffer |-> "cReqJSON"]]

\* what allocated each buffer: the request buffer is made by C.CString, the
\* result buffer by the foreign entry point that returns it
AllocatorOf(buffer) ==
    IF buffer = "cReqJSON" THEN CString ELSE "foreign entry point"

\* the free function of each allocator: C.CString allocates with the C
\* library's malloc, released by C.free; the C side hands its results over
\* to be released by the C library's free as well
MatchingFree(allocator) ==
    IF allocator = CString THEN "C.free" ELSE "C.free"

\* the foreign entry points of the three adapter operations
BoundaryCalls == {Py_CallRenderJinjaTemplate, Py_CallGetModelChatTemplate, Py_ClearCaches}

\* Error values the Go code returns (the text given to fmt.Errorf).
NoError == "nil"
ErrNilRequest == "received nil request"
ErrMarshal == "failed to marshal request"
ErrRenderFailed == "python render_jinja_template failed"
ErrFetchFailed == "python get_model_chat_template failed"
ErrUnmarshal == "failed to unmarshal response"
ErrModuleInit == "failed to initialize chat template module"
ErrClearCaches == "failed to clear caches"

\* An error kind of the specification that no statement of the code returns.
ErrNotInitialized == "not initialized"

\* Inputs.  A render request is a pointer: nil, or a request json.Marshal
\* accepts, or one it rejects (an []interface{} / map value it cannot encode).
RenderRequests == {"nil", "encodable", "unencodable"}
FetchRequests == {"encodable", "unencodable"}

\* Replies of the foreign entry points: the null sentinel, or a buffer whose
\* text decodes into the response type, or a buffer whose text does not.
NullResult == "null"
Replies == {NullResult, "valid", "malformed"}
ClearReplies == {NullResult, "sentinel"}
NoResult == "none"

\* status code of Py_InitChatTemplateModule: zero is success
Statuses == {0, 1}

AdapterOps == {"RenderChatTemplate", "FetchChatTemplate", "ClearCaches"}

VARIABLES
    interp,         \* foreign: "unstarted", "running", "stopped"
    moduleLive,     \* foreign: the module's cached state exists
    pc,             \* pc[t]: where goroutine t stands
    op,             \* op[t]: the operation t is in, or returned from last
    req,            \* req[t]: the request that call was given
    trace,          \* trace[t]: what that call has done so far
    cResult,        \* cResult[t]: what the foreign call of that call returned
    ret,            \* ret[t]: what that call returned to its caller
    lifecycle,      \* history: where the component is in its lifecycle
    lastLifecycle,  \* history: the lifecycle call begun last
    overlapped,     \* history: a lifecycle call began while another was running
    misordered,     \* history: Initialize / Finalize were not called alternately
    failedBefore,   \* history (SpecRender): failedBefore[t], a render of t has
                    \* failed since the component became ready
    gil,            \* foreign (SpecLive): the goroutine that holds the
                    \* interpreter's lock, 0 when none does
    deepCopy,       \* (SpecCopy) a request and what DeepCopy made of it
    wire            \* (SpecReply) a foreign reply, and the calls that receive
                    \* it: two FetchChatTemplate calls and a RenderChatTemplate

\* the variables that only the specifications other than Spec change
aux == <<failedBefore, gil, deepCopy, wire>>

vars == <<interp, moduleLive, pc, op, req, trace, cResult, ret,
          lifecycle, lastLifecycle, overlapped, misordered, aux>>

----------------------------------------------------------------------------
\* Helpers on traces.

RECURSIVE Count(_, _)
Count(s, e) ==
    IF s = <<>> THEN 0
    ELSE (IF Head(s) = e THEN 1 ELSE 0) + Count(Tail(s), e)

RECURSIVE CountIn(_, _)
CountIn(s, S) ==
    IF s = <<>> THEN 0
    ELSE (IF Head(s) \in S THEN 1 ELSE 0) + CountIn(Tail(s), S)

\* position of the first e in s, 0 when there is none
RECURSIVE IndexFrom(_, _, _)
IndexFrom(s, e, i) ==
    IF i > Len(s) THEN 0
    ELSE IF s[i] = e THEN i ELSE IndexFrom(s, e, i + 1)

Index(s, e) == IndexFrom(s, e, 1)

----------------------------------------------------------------------------
\* The foreign runtime, as the specification describes its entry points.

Py_Effect(ev, st, status) ==
    CASE ev = Py_InitializeGo -> [st EXCEPT !.interp = "running"]
      [] ev = Py_InitChatTemplateModule ->
            IF status = 0 THEN [st EXCEPT !.moduleLive = TRUE] ELSE st
      [] ev = Py_CleanupChatTemplateModule -> [st EXCEPT !.moduleLive = FALSE]
      [] ev = Py_FinalizeGo -> [st EXCEPT !.interp = "stopped"]
      [] OTHER -> st

RECURSIVE Py_Effects(_, _, _)
Py_Effects(evs, st, status) ==
    IF evs = <<>> THEN st
    ELSE Py_Effects(Tail(evs), Py_Effect(Head(evs), st, status), status)

Foreign == [interp |-> interp, moduleLive |-> moduleLive]

----------------------------------------------------------------------------
\* The Go code of each operation, as the list of things it does and the
\* value it returns.  "calls" is TRUE when the code stops at a foreign call
\* whose reply the next step consumes.

\* a slip: Initialize that never starts the interpreter
InitializeEntry_NoStart == <<ReadMemStats>>

\* Initialize, up to and including Py_InitializeGo()
InitializeEntry == <<ReadMemStats, Py_InitializeGo>>

\* a slip: Initialize that stops the interpreter when module init fails
InitializeExit_Rollback(status) ==
    IF status # 0
    THEN [events |-> <<Py_FinalizeGo>>, ret |-> [err |-> ErrModuleInit]]
    ELSE [events |-> <<ReadMemStats>>, ret |-> [err |-> NoError]]

\* Initialize, from the status Py_InitChatTemplateModule() returned
InitializeExit(status) ==
    IF status # 0
    THEN [events |-> <<>>, ret |-> [err |-> ErrModuleInit]]
    ELSE [events |-> <<ReadMemStats>>, ret |-> [err |-> NoError]]

\* a slip: the two foreign calls of Finalize the other way round
FinalizeCalls_Swapped == <<Py_FinalizeGo, Py_CleanupChatTemplateModule>>

\* the two foreign calls of Finalize, in program order
FinalizeCalls == <<Py_CleanupChatTemplateModule, Py_FinalizeGo>>

\* Finalize, up to and including the first foreign call
FinalizeEntry == <<ReadMemStats, FinalizeCalls[1]>>

\* Finalize, from the second foreign call on
FinalizeExit == <<FinalizeCalls[2], ReadMemStats>>

\* a slip: the nil check placed after the request was marshalled and copied
RenderEntry_LateNilCheck(r) ==
    IF r = "unencodable"
    THEN [events |-> <<ReadMemStats, Marshal>>, calls |-> FALSE,
          ret |-> [resp |-> "nil", err |-> ErrMarshal]]
    ELSE IF r = "nil"
    THEN [events |-> <<ReadMemStats, Marshal, CString, FreeReq>>, calls |-> FALSE,
          ret |-> [resp |-> "nil", err |-> ErrNilRequest]]
    ELSE [events |-> <<ReadMemStats, Marshal, CString, Py_CallRenderJinjaTemplate>>,
          calls |-> TRUE, ret |-> [resp |-> "nil", err |-> NoError]]

\* RenderChatTemplate, up to the foreign call
RenderEntry(r) ==
    IF r = "nil"
    THEN [events |-> <<ReadMemStats>>, calls |-> FALSE,
          ret |-> [resp |-> "nil", err |-> ErrNilRequest]]
    ELSE IF r = "unencodable"
    THEN [events |-> <<ReadMemStats, Marshal>>, calls |-> FALSE,
          ret |-> [resp |-> "nil", err |-> ErrMarshal]]
    ELSE [events |-> <<ReadMemStats, Marshal, CString, Py_CallRenderJinjaTemplate>>,
          calls |-> TRUE, ret |-> [resp |-> "nil", err |-> NoError]]

\* a slip: the request buffer released through the interpreter's allocator
RenderExit_WrongFamily(reply) ==
    IF reply = NullResult
    THEN [events |-> <<PyMemFreeReq>>,
          ret |-> [resp |-> "nil", err |-> ErrRenderFailed]]
    ELSE IF reply = "malformed"
    THEN [events |-> <<GoString, Unmarshal, FreeRes, PyMemFreeReq>>,
          ret |-> [resp |-> "nil", err |-> ErrUnmarshal]]
    ELSE [events |-> <<GoString, Unmarshal, ReadMemStats, FreeRes, PyMemFreeReq>>,
          ret |-> [resp |-> "response", err |-> NoError]]

\* a slip: the result buffer freed before it was copied into a Go string
RenderExit_FreeBeforeCopy(reply) ==
    IF reply = NullResult
    THEN [events |-> <<FreeReq>>,
          ret |-> [resp |-> "nil", err |-> ErrRenderFailed]]
    ELSE IF reply = "malformed"
    THEN [events |-> <<FreeRes, GoString, Unmarshal, FreeReq>>,
          ret |-> [resp |-> "nil", err |-> ErrUnmarshal]]
    ELSE [events |-> <<FreeRes, GoString, Unmarshal, ReadMemStats, FreeReq>>,
          ret |-> [resp |-> "response", err |-> NoError]]

\* a slip: the free of the request buffer deferred only after the nil check
\* of the result, so that the null path returns without it
RenderExit_LeakOnNull(reply) ==
    IF reply = NullResult
    THEN [events |-> <<>>,
          ret |-> [resp |-> "nil", err |-> ErrRenderFailed]]
    ELSE IF reply = "malformed"
    THEN [events |-> <<GoString, Unmarshal, FreeRes, FreeReq>>,
          ret |-> [resp |-> "nil", err |-> ErrUnmarshal]]
    ELSE [events |-> <<GoString, Unmarshal, ReadMemStats, FreeRes, FreeReq>>,
          ret |-> [resp |-> "response", err |-> NoError]]

\* RenderChatTemplate, from the reply of the foreign call; the deferred
\* frees run last, the one registered last first
RenderExit(reply) ==
    IF reply = NullResult
    THEN [events |-> <<FreeReq>>,
          ret |-> [resp |-> "nil", err |-> ErrRenderFailed]]
    ELSE IF reply = "malformed"
    THEN [events |-> <<GoString, Unmarshal, FreeRes, FreeReq>>,
          ret |-> [resp |-> "nil", err |-> ErrUnmarshal]]
    ELSE [events |-> <<GoString, Unmarshal, ReadMemStats, FreeRes, FreeReq>>,
          ret |-> [resp |-> "response", err |-> NoError]]

\* FetchChatTemplate, up to the foreign call (the request is a value)
FetchEntry(r) ==
    IF r = "unencodable"
    THEN [events |-> <<ReadMemStats, Marshal>>, calls |-> FALSE,
          ret |-> [template |-> "", kwargs |-> "nil", err |-> ErrMarshal]]
    ELSE [events |-> <<ReadMemStats, Marshal, CString, Py_CallGetModelChatTemplate>>,
          calls |-> TRUE,
          ret |-> [template |-> "", kwargs |-> "nil", err |-> NoError]]

\* a slip: a null result answered by calling the entry point a second time
FetchExit_RetryOnNull(reply) ==
    IF reply = NullResult
    THEN [events |-> <<Py_CallGetModelChatTemplate, FreeReq>>,
          ret |-> [template |-> "", kwargs |-> "nil", err |-> ErrFetchFailed]]
    ELSE IF reply = "malformed"
    THEN [events |-> <<GoString, Unmarshal, FreeRes, FreeReq>>,
          ret |-> [template |-> "", kwargs |-> "nil", err |-> ErrUnmarshal]]
    ELSE [events |-> <<GoString, Unmarshal, ReadMemStats, FreeRes, FreeReq>>,
          ret |-> [template |-> "response.ChatTemplate",
                   kwargs |-> "response.ChatTemplateKWArgs", err |-> NoError]]

\* a slip: the response variable returned although decoding into it failed
FetchExit_PartialOnDecodeError(reply) ==
    IF reply = NullResult
    THEN [events |-> <<FreeReq>>,
          ret |-> [template |-> "", kwargs |-> "nil", err |-> ErrFetchFailed]]
    ELSE IF reply = "malformed"
    THEN [events |-> <<GoString, Unmarshal, FreeRes, FreeReq>>,
          ret |-> [template |-> "response.ChatTemplate",
                   kwargs |-> "response.ChatTemplateKWArgs", err |-> ErrUnmarshal]]
    ELSE [events |-> <<GoString, Unmarshal, ReadMemStats, FreeRes, FreeReq>>,
          ret |-> [template |-> "response.ChatTemplate",
                   kwargs |-> "response.ChatTemplateKWArgs", err |-> NoError]]

\* FetchChatTemplate, from the reply of the foreign call
FetchExit(reply) ==
    IF reply = NullResult
    THEN [events |-> <<FreeReq>>,
          ret |-> [template |-> "", kwargs |-> "nil", err |-> ErrFetchFailed]]
    ELSE IF reply = "malformed"
    THEN [events |-> <<GoString, Unmarshal, FreeRes, FreeReq>>,
          ret |-> [template |-> "", kwargs |-> "nil", err |-> ErrUnmarshal]]
    ELSE [events |-> <<GoString, Unmarshal, ReadMemStats, FreeRes, FreeReq>>,
          ret |-> [template |-> "response.ChatTemplate",
                   kwargs |-> "response.ChatTemplateKWArgs", err |-> NoError]]

\* ClearCaches, up to the foreign call
ClearCachesEntry == <<ReadMemStats, Py_ClearCaches>>

\* a slip: the nil check of the result dropped, so that a null result is
\* taken for success (and handed to free)
ClearCachesExit_NoNilCheck(reply) ==
    [events |-> <<ReadMemStats, FreeRes>>, ret |-> [err |-> NoError]]

\* ClearCaches, from the reply of the foreign call
ClearCachesExit(reply) ==
    IF reply = NullResult
    THEN [events |-> <<>>, ret |-> [err |-> ErrClearCaches]]
    ELSE [events |-> <<ReadMemStats, FreeRes>>, ret |-> [err |-> NoError]]

----------------------------------------------------------------------------
NoRet == [err |-> NoError]
NoRequest == "none"

\* The lifecycle as the callers have driven it so far:
\*   "unstarted"        no Initialize has returned and no Finalize was called
\*   "ready"            an Initialize returned nil, no Finalize called since
\*   "failed"           an Initialize returned the module-init error
\*   "failedFinalized"  Finalize was called after that failure
\*   "finalized"        Finalize was called otherwise
AfterInitialize(lc, err) ==
    IF err # NoError THEN "failed"
    ELSE IF lc = "failed" THEN "failed"
    ELSE "ready"

AfterFinalize(lc) ==
    IF lc \in {"failed", "failedFinalized"} THEN "failedFinalized" ELSE "finalized"

----------------------------------------------------------------------------
\* The interchange codec of RenderJinjaTemplateRequest: encoding/json as the
\* struct tags direct it.

\* longest conversation of a request
MaxMessages == 2

\* A Go slice or map is nil, or has elements (possibly none).
NilSlice == [isNil |-> TRUE, elems |-> <<>>]
Slice(s) == [isNil |-> FALSE, elems |-> s]
NilMap == [isNil |-> TRUE, entries |-> {}]
Map(es) == [isNil |-> FALSE, entries |-> es]

\* Values held in an interface{}: each has its Go type.
GoValues ==
    {[type |-> "string", text |-> "x"], [type |-> "int", text |-> "1"],
     [type |-> "float64", text |-> "1"], [type |-> "chan", text |-> ""]}

ChatMessages == {[Role |-> "user", Content |-> "a"], [Role |-> "assistant", Content |-> "b"]}

SeqsUpTo(S, n) == UNION {[1..k -> S] : k \in 0..n}

RenderRequestValues ==
    [Conversations : {NilSlice} \cup {Slice(s) : s \in SeqsUpTo(ChatMessages, MaxMessages)},
     Tools : {NilSlice, Slice(<<>>)} \cup {Slice(<<v>>) : v \in GoValues},
     Documents : {NilSlice, Slice(<<>>), Slice(<<[type |-> "string", text |-> "x"]>>)},
     ChatTemplate : {"", "T"},
     ReturnAssistantTokensMask : BOOLEAN,
     ContinueFinalMessage : BOOLEAN,
     AddGenerationPrompt : BOOLEAN,
     ChatTemplateKWArgs : {NilMap, Map({})}
                             \cup {Map({<<"k", v>>}) : v \in GoValues \ {[type |-> "chan", text |-> ""]}}]

\* the zero value of the struct (var out RenderJinjaTemplateRequest)
ZeroRequest ==
    [Conversations |-> NilSlice, Tools |-> NilSlice, Documents |-> NilSlice,
     ChatTemplate |-> "", ReturnAssistantTokensMask |-> FALSE,
     ContinueFinalMessage |-> FALSE, AddGenerationPrompt |-> FALSE,
     ChatTemplateKWArgs |-> NilMap]

\* JSON values on the wire
JAbsent == [json |-> "absent", items |-> <<>>, members |-> {}, text |-> ""]
JNull == [json |-> "null", items |-> <<>>, members |-> {}, text |-> ""]
JArray(s) == [json |-> "array", items |-> s, members |-> {}, text |-> ""]
JObject(es) == [json |-> "object", items |-> <<>>, members |-> es, text |-> ""]
JString(s) == [json |-> "string", items |-> <<>>, members |-> {}, text |-> s]
JNumber(s) == [json |-> "number", items |-> <<>>, members |-> {}, text |-> s]
JBool(b) == [json |-> "bool", items |-> <<>>, members |-> {}, text |-> IF b THEN "true" ELSE "false"]

\* json.Marshal of a value held in an interface{}
CanEncode(v) == v.type # "chan"
EncodeValue(v) == IF v.type = "string" THEN JString(v.text) ELSE JNumber(v.text)

\* json.Unmarshal into an interface{}: a JSON number becomes a float64
DecodeValue(j) ==
    IF j.json = "string" THEN [type |-> "string", text |-> j.text]
    ELSE [type |-> "float64", text |-> j.text]

EncodeMessage(msg) == JObject({<<"role", JString(msg.Role)>>, <<"content", JString(msg.Content)>>})

MemberText(j, key) == (CHOOSE e \in j.members : e[1] = key)[2].text

DecodeMessage(j) == [Role |-> MemberText(j, "role"), Content |-> MemberText(j, "content")]

\* a field without omitempty: a nil slice is written as null
EncodeMessages(sl) ==
    IF sl.isNil THEN JNull
    ELSE JArray([i \in 1..Len(sl.elems) |-> EncodeMessage(sl.elems[i])])

\* omitempty: a slice or map of length zero, nil or not, a false flag and an
\* empty string are left out
EncodeValues(sl) ==
    IF Len(sl.elems) = 0 THEN JAbsent
    ELSE JArray([i \in 1..Len(sl.elems) |-> EncodeValue(sl.elems[i])])

EncodeKWArgs(mp) ==
    IF mp.entries = {} THEN JAbsent
    ELSE JObject({<<e[1], EncodeValue(e[2])>> : e \in mp.entries})

EncodeString(s) == IF s = "" THEN JAbsent ELSE JString(s)

EncodeFlag(b) == IF b THEN JBool(TRUE) ELSE JAbsent

\* json.Marshal(req) fails when a value cannot be encoded
MarshalFails(r) ==
    \/ \E i \in 1..Len(r.Tools.elems) : ~CanEncode(r.Tools.elems[i])
    \/ \E i \in 1..Len(r.Documents.elems) : ~CanEncode(r.Documents.elems[i])
    \/ \E e \in r.ChatTemplateKWArgs.entries : ~CanEncode(e[2])

EncodeRequest(r) ==
    [messages |-> EncodeMessages(r.Conversations),
     tools |-> EncodeValues(r.Tools),
     documents |-> EncodeValues(r.Documents),
     chat_template |-> EncodeString(r.ChatTemplate),
     return_assistant_tokens_mask |-> EncodeFlag(r.ReturnAssistantTokensMask),
     continue_final_message |-> EncodeFlag(r.ContinueFinalMessage),
     add_generation_prompt |-> EncodeFlag(r.AddGenerationPrompt),
     chat_template_kwargs |-> EncodeKWArgs(r.ChatTemplateKWArgs)]

\* json.Unmarshal into the zero struct: a member that is absent or null
\* leaves the field as it is, an array gives a slice that is not nil
DecodeMessages(j) ==
    IF j.json = "array"
    THEN Slice([i \in 1..Len(j.items) |-> DecodeMessage(j.items[i])])
    ELSE ZeroRequest.Conversations

DecodeValues(j) ==
    IF j.json = "array"
    THEN Slice([i \in 1..Len(j.items) |-> DecodeValue(j.items[i])])
    ELSE NilSlice

DecodeKWArgs(j) ==
    IF j.json = "object"
    THEN Map({<<e[1], DecodeValue(e[2])>> : e \in j.members})
    ELSE NilMap

DecodeRequest(w) ==
    [Conversations |-> DecodeMessages(w.messages),
     Tools |-> DecodeValues(w.tools),
     Documents |-> DecodeValues(w.documents),
     ChatTemplate |-> IF w.chat_template.json = "string" THEN w.chat_template.text ELSE "",
     ReturnAssistantTokensMask |-> w.return_assistant_tokens_mask.json = "bool",
     ContinueFinalMessage |-> w.continue_final_message.json = "bool",
     AddGenerationPrompt |-> w.add_generation_prompt.json = "bool",
     ChatTemplateKWArgs |-> DecodeKWArgs(w.chat_template_kwargs)]

\* (req *RenderJinjaTemplateRequest) DeepCopy
DeepCopy(r) ==
    IF MarshalFails(r)
    THEN [out |-> ZeroRequest, err |-> ErrMarshal]
    ELSE [out |-> DecodeRequest(EncodeRequest(r)), err |-> NoError]

NoCopy == [req |-> ZeroRequest, out |-> ZeroRequest, err |-> NoError, done |-> FALSE]

----------------------------------------------------------------------------
\* FetchChatTemplate and RenderChatTemplate on the wire: the bytes of the
\* encoded request, the bytes of the reply, the log records and the error.
\* Text is a sequence of characters, so that it has a length.

\* longest foreign reply, in bytes
MaxReplyLen == 3

Quote == "\""
Quoted(s) == <<Quote>> \o s \o <<Quote>>
Member(key, value) == Quoted(key) \o <<":">> \o value

RECURSIVE Joined(_)
Joined(parts) ==
    IF Len(parts) = 0 THEN <<>>
    ELSE IF Len(parts) = 1 THEN parts[1]
    ELSE parts[1] \o <<",">> \o Joined(Tail(parts))

\* access tokens: none, two of one length, one longer
Tokens == {<<>>, <<"s", "1">>, <<"s", "2">>, <<"s", "1", "2">>}

FetchRequestValues ==
    [Model : {<<"m">>},
     ChatTemplate : {<<>>},
     Tools : {NilSlice, Slice(<<[type |-> "string", text |-> "x"]>>),
              Slice(<<[type |-> "chan", text |-> ""]>>)},
     Revision : {<<>>},
     Token : Tokens,
     IsLocalPath : {FALSE}]

ValueBytes(v) == IF v.type = "string" THEN Quoted(<<v.text>>) ELSE <<v.text>>

\* the members json.Marshal writes for a FetchChatTemplateRequest, in the
\* order of the struct's fields; omitempty leaves out the empty ones
FetchMembers(r) ==
    <<Member(<<"m", "o", "d", "e", "l">>, Quoted(r.Model))>>
    \o (IF Len(r.ChatTemplate) = 0 THEN <<>>
        ELSE <<Member(<<"c", "h", "a", "t", "_", "t", "e", "m", "p", "l", "a", "t", "e">>, Quoted(r.ChatTemplate))>>)
    \o (IF Len(r.Tools.elems) = 0 THEN <<>>
        ELSE <<Member(<<"t", "o", "o", "l", "s">>,
                      <<"[">> \o Joined([i \in 1..Len(r.Tools.elems) |->
                                            ValueBytes(r.Tools.elems[i])]) \o <<"]">>)>>)
    \o (IF Len(r.Revision) = 0 THEN <<>>
        ELSE <<Member(<<"r", "e", "v", "i", "s", "i", "o", "n">>, Quoted(r.Revision))>>)
    \o (IF Len(r.Token) = 0 THEN <<>>
        ELSE <<Member(<<"t", "o", "k", "e", "n">>, Quoted(r.Token))>>)
    \o (IF ~r.IsLocalPath THEN <<>>
        ELSE <<Member(<<"i", "s", "_", "l", "o", "c", "a", "l", "_", "p", "a", "t", "h">>, <<"t", "r", "u", "e">>)>>)

\* reqJSON, err := json.Marshal(req)
EncodeFetchRequest(r) == <<"{">> \o Joined(FetchMembers(r)) \o <<"}">>

FetchMarshalFails(r) == \E i \in 1..Len(r.Tools.elems) : ~CanEncode(r.Tools.elems[i])

\* the char* a foreign entry point returns: NULL, or its bytes
ReplyBytes == {"{", "}", "x"}
NullReply == [isNull |-> TRUE, bytes |-> <<>>]
CReplies == {NullReply} \cup {[isNull |-> FALSE, bytes |-> b] : b \in SeqsUpTo(ReplyBytes, MaxReplyLen)}

\* encoding/json's errors: a message, the offending character if it names
\* one, and the Offset field
NoCause == [msg |-> "", char |-> <<>>, offset |-> <<>>]
SyntaxError(msg, char, offset) == [msg |-> msg, char |-> char, offset |-> <<offset>>]

\* json.Unmarshal first scans all of its input (checkValid); Offset counts
\* the bytes read up to and including the offending one. Of JSON these
\* replies can spell only the empty object.
RECURSIVE ScanFrom(_, _, _)
ScanFrom(b, i, state) ==
    IF i > Len(b)
    THEN IF state = "endTop" THEN NoCause
         ELSE SyntaxError("unexpected end of JSON input", <<>>, Len(b))
    ELSE CASE state = "beginValue" ->
                IF b[i] = "{" THEN ScanFrom(b, i + 1, "beginStringOrEmpty")
                ELSE SyntaxError("invalid character looking for beginning of value", <<b[i]>>, i)
           [] state = "beginStringOrEmpty" ->
                IF b[i] = "}" THEN ScanFrom(b, i + 1, "endTop")
                ELSE SyntaxError("invalid character looking for beginning of object key string",
                                 <<b[i]>>, i)
           [] state = "endTop" ->
                SyntaxError("invalid character after top-level value", <<b[i]>>, i)

Unmarshal_(b) == ScanFrom(b, 1, "beginValue")

\* an error value: fmt.Errorf's text and, after %w, the error it wraps
Error(text, cause) == [text |-> text, cause |-> cause]

\* a log record: the message, the number logged with it (if any) and the
\* text of anything else logged with it
Log(msg) == [msg |-> msg, count |-> <<>>, text |-> <<>>]
ErrorLog(msg, cause) == [msg |-> msg, count |-> cause.offset, text |-> cause.char]

\* printMemStats: the figures come from the runtime, not from the call
MemStatsLog(label) == Log(label)

\* traceLogger.Info("Allocated C string for request", "bytes", len(reqJSON))
AllocLog_WithPayload(reqJSON) ==
    [msg |-> "Allocated C string for request", count |-> <<Len(reqJSON)>>, text |-> reqJSON]

AllocLog(reqJSON) ==
    [msg |-> "Allocated C string for request", count |-> <<Len(reqJSON)>>, text |-> <<>>]

\* traceLogger.Info("Received JSON from Python", "length", len(resultJSON))
ReceivedLog(resultJSON) ==
    [msg |-> "Received JSON from Python", count |-> <<Len(resultJSON)>>, text |-> <<>>]

\* FetchChatTemplate from call to return, with the reply it receives: its
\* log records in order (the deferred frees last, the result's first) and
\* its error
FetchChatTemplate(r, reply) ==
    LET called == <<Log("FetchChatTemplate called"), MemStatsLog("Before FetchChatTemplate")>>
        allocated == called \o <<AllocLog(EncodeFetchRequest(r))>>
        freedReq == Log("Freed C string for request")
        freedRes == Log("Freed C string result from Python")
        received == allocated \o <<ReceivedLog(reply.bytes)>>
        cause == Unmarshal_(reply.bytes)
    IN  IF FetchMarshalFails(r)
        THEN [logs |-> called \o <<ErrorLog("Failed to marshal request", NoCause)>>,
              err |-> Error(ErrMarshal, NoCause)]
        ELSE IF reply.isNull
        THEN [logs |-> allocated \o <<ErrorLog("C function returned nil", NoCause), freedReq>>,
              err |-> Error(ErrFetchFailed, NoCause)]
        ELSE IF cause # NoCause
        THEN [logs |-> received \o <<ErrorLog("Failed to unmarshal response", cause),
                                     freedRes, freedReq>>,
              err |-> Error(ErrUnmarshal, cause)]
        ELSE [logs |-> received \o <<MemStatsLog("After FetchChatTemplate"), freedRes, freedReq>>,
              err |-> Error(NoError, NoCause)]

\* the error RenderChatTemplate returns, with the reply it receives
RenderChatTemplate(r, reply) ==
    IF r.isNil THEN Error(ErrNilRequest, NoCause)
    ELSE IF MarshalFails(r.val) THEN Error(ErrMarshal, NoCause)
    ELSE IF reply.isNull THEN Error(ErrRenderFailed, NoCause)
    ELSE LET cause == Unmarshal_(reply.bytes)
         IN IF cause # NoCause THEN Error(ErrUnmarshal, cause)
            ELSE Error(NoError, NoCause)

RenderPointers ==
    {[isNil |-> TRUE, val |-> ZeroRequest], [isNil |-> FALSE, val |-> ZeroRequest],
     [isNil |-> FALSE,
      val |-> [ZeroRequest EXCEPT !.Tools = Slice(<<[type |-> "chan", text |-> ""]>>)]]}

NoFetchRun(r) == [req |-> r, logs |-> <<>>, err |-> Error(NoError, NoCause), done |-> FALSE]
NoRenderRun(r) == [req |-> r, err |-> Error(NoError, NoCause), done |-> FALSE]
ZeroFetchRequest ==
    [Model |-> <<>>, ChatTemplate |-> <<>>, Tools |-> NilSlice, Revision |-> <<>>,
     Token |-> <<>>, IsLocalPath |-> FALSE]

NoWire ==
    [reply |-> NullReply,
     fetch |-> <<NoFetchRun(ZeroFetchRequest), NoFetchRun(ZeroFetchRequest)>>,
     render |-> NoRenderRun([isNil |-> TRUE, val |-> ZeroRequest])]

Init ==
    /\ interp = "unstarted"
    /\ moduleLive = FALSE
    /\ pc = [t \in Threads |-> "idle"]
    /\ op = [t \in Threads |-> "none"]
    /\ req = [t \in Threads |-> NoRequest]
    /\ trace = [t \in Threads |-> <<>>]
    /\ cResult = [t \in Threads |-> NoResult]
    /\ ret = [t \in Threads |-> NoRet]
    /\ lifecycle = "unstarted"
    /\ lastLifecycle = "none"
    /\ overlapped = FALSE
    /\ misordered = FALSE
    /\ failedBefore = [t \in Threads |-> FALSE]
    /\ gil = 0
    /\ deepCopy = NoCopy
    /\ wire = NoWire

\* a lifecycle call of another goroutine is between its two foreign calls
LifecycleInFlight(t) == \E u \in Threads \ {t} : pc[u] \in {"init_module", "fin_stop"}

\* goroutine t runs evs, the foreign runtime answering status to module init
Run(t, evs, status) ==
    LET st == Py_Effects(evs, Foreign, status)
    IN /\ interp' = st.interp
       /\ moduleLive' = st.moduleLive

\* t calls Initialize: everything up to the return of Py_InitializeGo
InitializeStart(t) ==
    /\ pc[t] = "idle"
    /\ Run(t, InitializeEntry, 0)
    /\ pc' = [pc EXCEPT ![t] = "init_module"]
    /\ op' = [op EXCEPT ![t] = "Initialize"]
    /\ req' = [req EXCEPT ![t] = NoRequest]
    /\ trace' = [trace EXCEPT ![t] = InitializeEntry]
    /\ cResult' = [cResult EXCEPT ![t] = NoResult]
    /\ ret' = [ret EXCEPT ![t] = NoRet]
    /\ overlapped' = (overlapped \/ LifecycleInFlight(t))
    /\ misordered' = (misordered \/ lastLifecycle = "Initialize")
    /\ lastLifecycle' = "Initialize"
    /\ UNCHANGED lifecycle

\* t calls Py_InitChatTemplateModule and finishes Initialize on its status
InitializeModule(t) ==
    /\ pc[t] = "init_module"
    /\ \E status \in Statuses :
         LET r == InitializeExit(status)
             evs == <<Py_InitChatTemplateModule>> \o r.events
         IN /\ Run(t, evs, status)
            /\ trace' = [trace EXCEPT ![t] = @ \o evs]
            /\ ret' = [ret EXCEPT ![t] = r.ret]
            /\ lifecycle' = AfterInitialize(lifecycle, r.ret.err)
    /\ pc' = [pc EXCEPT ![t] = "idle"]
    /\ UNCHANGED <<op, req, cResult, lastLifecycle, overlapped, misordered>>

\* t calls Finalize: everything up to the return of the module cleanup
FinalizeCleanup(t) ==
    /\ pc[t] = "idle"
    /\ Run(t, FinalizeEntry, 0)
    /\ pc' = [pc EXCEPT ![t] = "fin_stop"]
    /\ op' = [op EXCEPT ![t] = "Finalize"]
    /\ req' = [req EXCEPT ![t] = NoRequest]
    /\ trace' = [trace EXCEPT ![t] = FinalizeEntry]
    /\ cResult' = [cResult EXCEPT ![t] = NoResult]
    /\ ret' = [ret EXCEPT ![t] = NoRet]
    /\ lifecycle' = AfterFinalize(lifecycle)
    /\ overlapped' = (overlapped \/ LifecycleInFlight(t))
    /\ misordered' = (misordered \/ lastLifecycle # "Initialize")
    /\ lastLifecycle' = "Finalize"

\* t stops the interpreter and returns from Finalize
FinalizeStop(t) ==
    /\ pc[t] = "fin_stop"
    /\ Run(t, FinalizeExit, 0)
    /\ trace' = [trace EXCEPT ![t] = @ \o FinalizeExit]
    /\ pc' = [pc EXCEPT ![t] = "idle"]
    /\ UNCHANGED <<op, req, cResult, ret, lifecycle, lastLifecycle, overlapped, misordered>>

\* a slip: a processor that remembers a failure, so that a call made by a
\* goroutine whose previous call returned an error returns that error again
AdapterCall_Poisoned(t, name, r, entry) ==
    /\ pc[t] = "idle"
    /\ op' = [op EXCEPT ![t] = name]
    /\ req' = [req EXCEPT ![t] = r]
    /\ trace' = [trace EXCEPT ![t] =
                    IF ret[t].err # NoError THEN <<ReadMemStats>> ELSE entry.events]
    /\ cResult' = [cResult EXCEPT ![t] = NoResult]
    /\ ret' = [ret EXCEPT ![t] = IF ret[t].err # NoError THEN ret[t] ELSE entry.ret]
    /\ pc' = [pc EXCEPT ![t] = IF entry.calls /\ ret[t].err = NoError
                                THEN "in_foreign" ELSE "idle"]
    /\ UNCHANGED <<interp, moduleLive, lifecycle, lastLifecycle, overlapped, misordered>>

\* t calls an adapter operation: it returns early or enters the foreign call
AdapterCall(t, name, r, entry) ==
    /\ pc[t] = "idle"
    /\ op' = [op EXCEPT ![t] = name]
    /\ req' = [req EXCEPT ![t] = r]
    /\ trace' = [trace EXCEPT ![t] = entry.events]
    /\ cResult' = [cResult EXCEPT ![t] = NoResult]
    /\ ret' = [ret EXCEPT ![t] = entry.ret]
    /\ pc' = [pc EXCEPT ![t] = IF entry.calls THEN "in_foreign" ELSE "idle"]
    /\ UNCHANGED <<interp, moduleLive, lifecycle, lastLifecycle, overlapped, misordered>>

\* a slip: a null result answered by calling the entry point again, until
\* it returns a result
AdapterReturn_RetryUntilResult(t, name, reply, exit) ==
    /\ pc[t] = "in_foreign"
    /\ op[t] = name
    /\ IF reply = NullResult
       THEN UNCHANGED <<cResult, trace, ret, pc>>
       ELSE /\ cResult' = [cResult EXCEPT ![t] = reply]
            /\ trace' = [trace EXCEPT ![t] = @ \o exit.events]
            /\ ret' = [ret EXCEPT ![t] = exit.ret]
            /\ pc' = [pc EXCEPT ![t] = "idle"]
    /\ UNCHANGED <<interp, moduleLive, op, req, lifecycle, lastLifecycle, overlapped, misordered>>

\* the foreign call of t returns reply and t finishes the operation
AdapterReturn(t, name, reply, exit) ==
    /\ pc[t] = "in_foreign"
    /\ op[t] = name
    /\ cResult' = [cResult EXCEPT ![t] = reply]
    /\ trace' = [trace EXCEPT ![t] = @ \o exit.events]
    /\ ret' = [ret EXCEPT ![t] = exit.ret]
    /\ pc' = [pc EXCEPT ![t] = "idle"]
    /\ UNCHANGED <<interp, moduleLive, op, req, lifecycle, lastLifecycle, overlapped, misordered>>

RenderCall(t) ==
    \E r \in RenderRequests : AdapterCall(t, "RenderChatTemplate", r, RenderEntry(r))

RenderReturn(t) ==
    \E reply \in Replies : AdapterReturn(t, "RenderChatTemplate", reply, RenderExit(reply))

FetchCall(t) ==
    \E r \in FetchRequests : AdapterCall(t, "FetchChatTemplate", r, FetchEntry(r))

FetchReturn(t) ==
    \E reply \in Replies : AdapterReturn(t, "FetchChatTemplate", reply, FetchExit(reply))

ClearCachesCall(t) ==
    AdapterCall(t, "ClearCaches", NoRequest,
                [events |-> ClearCachesEntry, calls |-> TRUE, ret |-> NoRet])

ClearCachesReturn(t) ==
    \E reply \in ClearReplies : AdapterReturn(t, "ClearCaches", reply, ClearCachesExit(reply))

Next ==
    \E t \in Threads :
        \/ InitializeStart(t) /\ UNCHANGED aux
        \/ InitializeModule(t) /\ UNCHANGED aux
        \/ FinalizeCleanup(t) /\ UNCHANGED aux
        \/ FinalizeStop(t) /\ UNCHANGED aux
        \/ RenderCall(t) /\ UNCHANGED aux
        \/ RenderReturn(t) /\ UNCHANGED aux
        \/ FetchCall(t) /\ UNCHANGED aux
        \/ FetchReturn(t) /\ UNCHANGED aux
        \/ ClearCachesCall(t) /\ UNCHANGED aux
        \/ ClearCachesReturn(t) /\ UNCHANGED aux

Spec == Init /\ [][Next]_vars

----------------------------------------------------------------------------
TypeOK ==
    /\ interp \in {"unstarted", "running", "stopped"}
    /\ moduleLive \in BOOLEAN
    /\ \A t \in Threads : pc[t] \in {"idle", "init_module", "fin_stop", "in_foreign"}
    /\ lifecycle \in {"unstarted", "ready", "failed", "failedFinalized", "finalized"}

----------------------------------------------------------------------------
\* What a returned call did.

Returned(t, name) == pc[t] = "idle" /\ op[t] = name

ReturnedAdapter(t) == pc[t] = "idle" /\ op[t] \in AdapterOps

\* number of times the call of t invoked a foreign entry point of an adapter
BoundaryCount(t) == CountIn(trace[t], BoundaryCalls)

\* the call of t received a result buffer from the foreign runtime
HasResult(t) == cResult[t] \notin {NoResult, NullResult}

\* the step is goroutine t calling an adapter operation
AdapterCallStep(t) == RenderCall(t) \/ FetchCall(t) \/ ClearCachesCall(t)

----------------------------------------------------------------------------
\* C1 (as claimed): a RenderChatTemplate call made while the component is not
\* ready (no Initialize has returned successfully, or Finalize was called
\* since) returns the not-initialized error at once and does not invoke the
\* foreign render entry point.
C1_LifecycleGuard ==
    [][\A t \in Threads :
          (RenderCall(t) /\ lifecycle # "ready")
             => /\ pc'[t] = "idle"
                /\ ret'[t].err = ErrNotInitialized
                /\ CountIn(trace'[t], BoundaryCalls) = 0]_vars

----------------------------------------------------------------------------
\* C2: when RenderChatTemplate, FetchChatTemplate or ClearCaches has returned,
\* on whatever path, the request buffer was freed as many times as it was
\* allocated (once or never), and the result buffer was freed once when the
\* foreign call returned one and never when it returned null or was not made.
C2_BufferHygiene ==
    \A t \in Threads :
        ReturnedAdapter(t)
           => /\ Count(trace[t], CString) <= 1
              /\ Count(trace[t], FreeReq) = Count(trace[t], CString)
              /\ Count(trace[t], FreeRes) = (IF HasResult(t) THEN 1 ELSE 0)

\* one call returned after a result that did not decode, another after a
\* null result, each with its buffers freed
C2_Witness ==
    \E t, u \in Threads :
        /\ Returned(t, "RenderChatTemplate") /\ cResult[t] = "malformed"
        /\ Count(trace[t], FreeReq) = 1 /\ Count(trace[t], FreeRes) = 1
        /\ Returned(u, "FetchChatTemplate") /\ cResult[u] = NullResult
        /\ Count(trace[u], FreeReq) = 1 /\ Count(trace[u], FreeRes) = 0

----------------------------------------------------------------------------
\* C3: a call whose foreign entry point returned null returns the
\* operation's foreign-call-failed error and nothing else (nil response;
\* empty template and nil kwargs), and has not copied or decoded the result.
C3_NullResultMapping ==
    \A t \in Threads :
        (ReturnedAdapter(t) /\ cResult[t] = NullResult)
           => /\ Count(trace[t], GoString) = 0
              /\ Count(trace[t], Unmarshal) = 0
              /\ op[t] = "RenderChatTemplate"
                    => ret[t] = [resp |-> "nil", err |-> ErrRenderFailed]
              /\ op[t] = "FetchChatTemplate"
                    => ret[t] = [template |-> "", kwargs |-> "nil", err |-> ErrFetchFailed]
              /\ op[t] = "ClearCaches" => ret[t] = [err |-> ErrClearCaches]

\* a render and a cache clear have both returned after a null result
C3_Witness ==
    \E t, u \in Threads :
        /\ Returned(t, "RenderChatTemplate") /\ cResult[t] = NullResult
        /\ ret[t].err = ErrRenderFailed
        /\ Returned(u, "ClearCaches") /\ cResult[u] = NullResult
        /\ ret[u].err = ErrClearCaches

----------------------------------------------------------------------------
\* C4 (as claimed): while a foreign entry point of an adapter operation is
\* running, the interpreter is running, an Initialize has completed, and
\* no Finalize has begun since or is in progress.
C4_NoBoundaryCallOutsideReady ==
    \A t \in Threads :
        pc[t] = "in_foreign"
           => /\ interp = "running"
              /\ lifecycle = "ready"
              /\ \A u \in Threads : pc[u] # "fin_stop"

----------------------------------------------------------------------------
\* C5: an Initialize whose module init returns non-zero returns the
\* module-init error having called neither the module cleanup nor the
\* interpreter stop: it leaves the interpreter as its own start left it
\* (running, when no other lifecycle call ran beside it); and every Finalize,
\* so also the next one, calls the cleanup and the stop and leaves the
\* interpreter stopped.
C5_InitFailureNoRollback ==
    [][\A t \in Threads :
          /\ (InitializeModule(t) /\ ret'[t].err # NoError)
                => /\ ret'[t].err = ErrModuleInit
                   /\ trace'[t] = <<ReadMemStats, Py_InitializeGo, Py_InitChatTemplateModule>>
                   /\ interp' = interp
                   /\ moduleLive' = moduleLive
                   /\ ~overlapped => interp' = "running"
          /\ (FinalizeStop(t) /\ lifecycle = "failedFinalized")
                => /\ Count(trace'[t], Py_CleanupChatTemplateModule) = 1
                   /\ Count(trace'[t], Py_FinalizeGo) = 1
                   /\ moduleLive' = FALSE \/ overlapped
                   /\ interp' = "stopped"]_vars

\* Initialize failed and left the interpreter running, and the Finalize that
\* followed has stopped it
C5_Witness ==
    \E t, u \in Threads :
        /\ Returned(u, "Initialize") /\ ret[u].err = ErrModuleInit
        /\ Returned(t, "Finalize")
        /\ lifecycle = "failedFinalized"
        /\ ~overlapped /\ ~misordered
        /\ interp = "stopped"

----------------------------------------------------------------------------
\* C6 (as claimed): after an Initialize failed with the module-init error,
\* and until a Finalize followed by a successful Initialize, every adapter
\* call returns an error without invoking its foreign entry point.
C6_UnusableAfterInitFailure ==
    [][\A t \in Threads :
          (AdapterCallStep(t) /\ lifecycle \in {"failed", "failedFinalized"})
             => /\ pc'[t] = "idle"
                /\ ret'[t].err # NoError
                /\ CountIn(trace'[t], BoundaryCalls) = 0]_vars

----------------------------------------------------------------------------
\* C7 (as claimed): a Finalize call has called the module cleanup once and
\* then the interpreter stop once, and at the moment it stops the
\* interpreter the module's cached state is not live.
C7_FinalizeOrdering ==
    [][\A t \in Threads :
          FinalizeStop(t)
             => /\ Count(trace'[t], Py_CleanupChatTemplateModule) = 1
                /\ Count(trace'[t], Py_FinalizeGo) = 1
                /\ Index(trace'[t], Py_CleanupChatTemplateModule)
                      < Index(trace'[t], Py_FinalizeGo)
                /\ ~moduleLive]_vars

\* C7 (amended): the same, the module's cached state being not live at the
\* stop provided no lifecycle call has ever begun while another was running.
C7_FinalizeOrderingAmended ==
    [][\A t \in Threads :
          FinalizeStop(t)
             => /\ Count(trace'[t], Py_CleanupChatTemplateModule) = 1
                /\ Count(trace'[t], Py_FinalizeGo) = 1
                /\ Index(trace'[t], Py_CleanupChatTemplateModule)
                      < Index(trace'[t], Py_FinalizeGo)
                /\ ~overlapped => ~moduleLive]_vars

\* a Finalize that found the module live has returned, the interpreter is
\* stopped and the module state gone
C7_Witness ==
    \E t \in Threads :
        /\ Returned(t, "Finalize")
        /\ trace[t] = <<ReadMemStats, Py_CleanupChatTemplateModule, Py_FinalizeGo, ReadMemStats>>
        /\ ~overlapped /\ ~misordered
        /\ lifecycle = "finalized"
        /\ interp = "stopped" /\ ~moduleLive

----------------------------------------------------------------------------
\* C8 (as claimed): whatever the calls, Initialize never starts an
\* interpreter that is running and Finalize never stops one that is not.
C8_SingletonLifecycle ==
    [][\A t \in Threads :
          /\ InitializeStart(t) => interp # "running"
          /\ FinalizeStop(t) => interp = "running"]_vars

\* C8 (amended): the same for callers that keep the lifecycle contract, that
\* is as long as no lifecycle call began while another was running and
\* Initialize and Finalize were called alternately, Initialize first.
C8_SingletonLifecycleAmended ==
    [][\A t \in Threads :
          (~overlapped' /\ ~misordered')
             => /\ InitializeStart(t) => interp # "running"
                /\ FinalizeStop(t) => interp = "running"]_vars

\* a second Initialize / Finalize pair has completed within the contract
C8_Witness ==
    \E t, u \in Threads :
        /\ t # u
        /\ Returned(t, "Finalize") /\ Returned(u, "Initialize")
        /\ ret[u].err = NoError
        /\ lastLifecycle = "Finalize"
        /\ lifecycle = "finalized"
        /\ ~overlapped /\ ~misordered
        /\ interp = "stopped"

----------------------------------------------------------------------------
\* C9: RenderChatTemplate given a nil request returns the nil-request error
\* having neither marshalled, nor allocated the request buffer, nor invoked
\* a foreign entry point, nor freed anything.
C9_NilRequestRejectedFirst ==
    \A t \in Threads :
        (Returned(t, "RenderChatTemplate") /\ req[t] = "nil")
           => /\ ret[t] = [resp |-> "nil", err |-> ErrNilRequest]
              /\ CountIn(trace[t], {Marshal, CString, FreeReq, FreeRes}
                                      \cup BoundaryCalls) = 0
              /\ cResult[t] = NoResult

\* a render given nil has returned while the component was ready
C9_Witness ==
    \E t \in Threads :
        /\ Returned(t, "RenderChatTemplate") /\ req[t] = "nil"
        /\ ret[t].err = ErrNilRequest
        /\ lifecycle = "ready"

----------------------------------------------------------------------------
\* C10: an adapter call invokes its foreign entry point at most once, also
\* when that returned null or a result that does not decode; the failure is
\* then the error the call returns.
C10_NoRetries ==
    \A t \in Threads :
        op[t] \in AdapterOps
           => /\ BoundaryCount(t) <= 1
              /\ (pc[t] = "idle" /\ cResult[t] \in {NullResult, "malformed"})
                    => /\ BoundaryCount(t) = 1
                       /\ ret[t].err \in {ErrRenderFailed, ErrFetchFailed,
                                          ErrClearCaches, ErrUnmarshal}

\* a fetch has returned after a null result, having called once
C10_Witness ==
    \E t \in Threads :
        /\ Returned(t, "FetchChatTemplate") /\ cResult[t] = NullResult
        /\ BoundaryCount(t) = 1
        /\ ret[t].err = ErrFetchFailed

----------------------------------------------------------------------------
\* C11: a returned RenderChatTemplate has a response exactly when it has no
\* error, a returned FetchChatTemplate has the decoded template and kwargs
\* when it has no error and the empty template and nil kwargs when it has
\* one; a result that was received but does not decode gives the unmarshal
\* error, which is not the foreign-call-failed error, and no response.
C11_AtomicOutcome ==
    \A t \in Threads :
        /\ Returned(t, "RenderChatTemplate")
              => /\ (ret[t].resp = "nil") <=> (ret[t].err # NoError)
                 /\ cResult[t] = "malformed"
                       => /\ ret[t] = [resp |-> "nil", err |-> ErrUnmarshal]
                          /\ ret[t].err # ErrRenderFailed
        /\ Returned(t, "FetchChatTemplate")
              => /\ ret[t].err = NoError
                       => /\ ret[t].template = "response.ChatTemplate"
                          /\ ret[t].kwargs = "response.ChatTemplateKWArgs"
                 /\ ret[t].err # NoError
                       => ret[t].template = "" /\ ret[t].kwargs = "nil"
                 /\ cResult[t] = "malformed"
                       => ret[t].err = ErrUnmarshal /\ ret[t].err # ErrFetchFailed

\* a fetch has returned after a result that did not decode, a render after
\* one that did
C11_Witness ==
    \E t, u \in Threads :
        /\ Returned(t, "FetchChatTemplate") /\ cResult[t] = "malformed"
        /\ ret[t].err = ErrUnmarshal /\ ret[t].template = ""
        /\ Returned(u, "RenderChatTemplate") /\ cResult[u] = "valid"
        /\ ret[u] = [resp |-> "response", err |-> NoError]

----------------------------------------------------------------------------
----------------------------------------------------------------------------
\* C17 (as claimed): a returned adapter call has recorded two memory
\* snapshots for the boundary call it made, one before it and one after it,
\* and none when it made no boundary call.
C17_SnapshotsBracketCalls ==
    \A t \in Threads :
        ReturnedAdapter(t)
           => /\ Count(trace[t], ReadMemStats) = 2 * BoundaryCount(t)
              /\ BoundaryCount(t) = 1
                    => /\ trace[t][1] = ReadMemStats
                       /\ \E i, j \in 1..Len(trace[t]) :
                             /\ i < j
                             /\ trace[t][i] \in BoundaryCalls
                             /\ trace[t][j] = ReadMemStats

----------------------------------------------------------------------------
\* the foreign entry point of each adapter operation
EntryPoint(name) ==
    CASE name = "RenderChatTemplate" -> Py_CallRenderJinjaTemplate
      [] name = "FetchChatTemplate" -> Py_CallGetModelChatTemplate
      [] name = "ClearCaches" -> Py_ClearCaches

\* C19: in RenderChatTemplate and FetchChatTemplate the request buffer is
\* allocated and not yet freed while the foreign call runs and is freed only
\* after it; the result buffer is copied (C.GoString) once, before it is
\* freed, and decoding comes after the copy; and the result buffer is freed
\* before the request buffer, whose free is the last thing the call does.
C19_NoUseAfterFree ==
    \A t \in Threads :
        op[t] \in {"RenderChatTemplate", "FetchChatTemplate"}
           => LET tr == trace[t]
                  call == Index(tr, EntryPoint(op[t]))
                  copy == Index(tr, GoString)
                  dec == Index(tr, Unmarshal)
                  fres == Index(tr, FreeRes)
                  freq == Index(tr, FreeReq)
              IN /\ pc[t] = "in_foreign"
                    => /\ Index(tr, CString) > 0 /\ Index(tr, CString) < call
                       /\ freq = 0 /\ fres = 0
                 /\ freq > 0 => call > 0 /\ call < freq /\ freq = Len(tr)
                 /\ fres > 0 => /\ copy > 0 /\ copy < fres
                                /\ Count(tr, GoString) = 1
                                /\ dec > copy
                                /\ fres < freq
                 /\ copy > 0 => call < copy /\ fres > copy

\* a render is inside the foreign call with its request buffer allocated,
\* and a fetch has returned having copied, then freed, its result
C19_Witness ==
    \E t, u \in Threads :
        /\ pc[t] = "in_foreign" /\ op[t] = "RenderChatTemplate"
        /\ Count(trace[t], CString) = 1 /\ Count(trace[t], FreeReq) = 0
        /\ Returned(u, "FetchChatTemplate") /\ cResult[u] = "valid"
        /\ Index(trace[u], GoString) < Index(trace[u], FreeRes)
        /\ Index(trace[u], FreeRes) < Index(trace[u], FreeReq)

----------------------------------------------------------------------------
\* The lifecycle and render operations alone, with the history of failed
\* renders: failedBefore[t] holds from the return of a failed render of t
\* made while the component was ready until the component stops being ready.

\* the step just taken was a RenderChatTemplate of t returning an error
RenderFailedNow(t) ==
    /\ op'[t] = "RenderChatTemplate"
    /\ pc'[t] = "idle"
    /\ ret'[t].err # NoError

TrackFailures(t) ==
    /\ failedBefore' =
        [u \in Threads |->
            IF lifecycle' # "ready" THEN FALSE
            ELSE IF u = t /\ RenderFailedNow(t) THEN TRUE
            ELSE failedBefore[u]]
    /\ UNCHANGED <<gil, deepCopy, wire>>

NextRender ==
    \E t \in Threads :
        \/ InitializeStart(t) /\ TrackFailures(t)
        \/ InitializeModule(t) /\ TrackFailures(t)
        \/ FinalizeCleanup(t) /\ TrackFailures(t)
        \/ FinalizeStop(t) /\ TrackFailures(t)
        \/ RenderCall(t) /\ TrackFailures(t)
        \/ RenderReturn(t) /\ TrackFailures(t)

SpecRender == Init /\ [][NextRender]_vars

\* what RenderChatTemplate returns for each reply of the foreign call
DictatedBy(reply) ==
    CASE reply = NullResult -> [resp |-> "nil", err |-> ErrRenderFailed]
      [] reply = "malformed" -> [resp |-> "nil", err |-> ErrUnmarshal]
      [] reply = "valid" -> [resp |-> "response", err |-> NoError]

\* C12: a RenderChatTemplate called by a goroutine whose earlier render
\* failed in the same ready window does what a first call does: with a nil
\* or unencodable request it returns that request's error, with an encodable
\* one it crosses the boundary once, and on return its result is the one the
\* reply of the foreign call dictates.
C12_FailureLeavesNoState ==
    [][\A t \in Threads :
          /\ (RenderCall(t) /\ failedBefore[t] /\ lifecycle = "ready")
                => /\ req'[t] = "encodable"
                      => /\ pc'[t] = "in_foreign"
                         /\ trace'[t] = <<ReadMemStats, Marshal, CString,
                                          Py_CallRenderJinjaTemplate>>
                   /\ req'[t] = "nil"
                      => pc'[t] = "idle" /\ ret'[t].err = ErrNilRequest
                   /\ req'[t] = "unencodable"
                      => pc'[t] = "idle" /\ ret'[t].err = ErrMarshal
          /\ (RenderReturn(t) /\ failedBefore[t])
                => /\ pc'[t] = "idle"
                   /\ ret'[t] = DictatedBy(cResult'[t])]_vars

\* a goroutine whose earlier render failed in this ready window has since
\* made a render that crossed the boundary and returned the response
C12_Witness ==
    \E t \in Threads :
        /\ failedBefore[t]
        /\ lifecycle = "ready"
        /\ Returned(t, "RenderChatTemplate")
        /\ cResult[t] = "valid"
        /\ ret[t] = [resp |-> "response", err |-> NoError]

----------------------------------------------------------------------------
\* The same operations with the lock of the foreign runtime: a goroutine
\* that has reached its foreign call waits until the lock is free, holds it
\* while the entry point runs and gives it up when the entry point returns.
\* The Go code takes no lock of its own anywhere, so nothing else can make a
\* goroutine wait.  The component is initialized once, by whichever
\* goroutine comes first, and not finalized: the calls of Initialize run
\* under the same lock, each in one step.

AcquireGIL(t) ==
    /\ pc[t] = "in_foreign"
    /\ gil = 0
    /\ gil' = t
    /\ UNCHANGED <<interp, moduleLive, pc, op, req, trace, cResult, ret,
                   lifecycle, lastLifecycle, overlapped, misordered, failedBefore, deepCopy, wire>>

\* the entry point that t runs returns, and t finishes its operation
ForeignReturn(t) ==
    /\ gil = t
    /\ (RenderReturn(t) \/ FetchReturn(t) \/ ClearCachesReturn(t))
    /\ gil' = 0
    /\ UNCHANGED <<failedBefore, deepCopy, wire>>

NextLive ==
    \E t \in Threads :
        \/ gil = 0 /\ lastLifecycle = "none" /\ InitializeStart(t) /\ UNCHANGED aux
        \/ gil = 0 /\ InitializeModule(t) /\ UNCHANGED aux
        \/ RenderCall(t) /\ UNCHANGED aux
        \/ FetchCall(t) /\ UNCHANGED aux
        \/ ClearCachesCall(t) /\ UNCHANGED aux
        \/ AcquireGIL(t)
        \/ ForeignReturn(t)

\* fair scheduling: a goroutine that waits for the lock gets it in the end
\* (the lock is free again and again), and the foreign runtime returns in the
\* end from the entry point it runs
SpecLive ==
    /\ Init
    /\ [][NextLive]_vars
    /\ \A t \in Threads : SF_vars(AcquireGIL(t)) /\ WF_vars(ForeignReturn(t))

\* C18: under that scheduling every adapter call that has reached its
\* foreign call returns to its caller, whatever the other goroutines do.
C18_EveryCallReturns ==
    \A t \in Threads : (pc[t] = "in_foreign") ~> (pc[t] = "idle" /\ op[t] \in AdapterOps)

\* a goroutine waits for the lock of the foreign runtime that another holds
C18_Witness ==
    \E t, u \in Threads :
        /\ t # u
        /\ lifecycle = "ready"
        /\ pc[t] = "in_foreign" /\ pc[u] = "in_foreign"
        /\ gil = u

----------------------------------------------------------------------------
\* DeepCopy applied to every request of RenderRequestValues.

InitCopy ==
    /\ interp = "unstarted"
    /\ moduleLive = FALSE
    /\ pc = [t \in Threads |-> "idle"]
    /\ op = [t \in Threads |-> "none"]
    /\ req = [t \in Threads |-> NoRequest]
    /\ trace = [t \in Threads |-> <<>>]
    /\ cResult = [t \in Threads |-> NoResult]
    /\ ret = [t \in Threads |-> NoRet]
    /\ lifecycle = "unstarted"
    /\ lastLifecycle = "none"
    /\ overlapped = FALSE
    /\ misordered = FALSE
    /\ failedBefore = [t \in Threads |-> FALSE]
    /\ gil = 0
    /\ deepCopy \in {[NoCopy EXCEPT !.req = r] : r \in RenderRequestValues}
    /\ wire = NoWire

CallDeepCopy ==
    /\ ~deepCopy.done
    /\ LET c == DeepCopy(deepCopy.req)
       IN deepCopy' = [req |-> deepCopy.req, out |-> c.out, err |-> c.err, done |-> TRUE]
    /\ UNCHANGED <<interp, moduleLive, pc, op, req, trace, cResult, ret,
                   lifecycle, lastLifecycle, overlapped, misordered, failedBefore, gil, wire>>

NextCopy == CallDeepCopy

SpecCopy == InitCopy /\ [][NextCopy]_vars

\* C13 (as claimed): when DeepCopy returns no error, the request it returns
\* equals its receiver field for field, nil and empty slices and maps and the
\* Go types of the opaque values included.
C13_RoundTrip ==
    (deepCopy.done /\ deepCopy.err = NoError) => deepCopy.out = deepCopy.req

----------------------------------------------------------------------------
\* Every reply of CReplies, received by two FetchChatTemplate calls whose
\* requests differ only in Token and by a RenderChatTemplate call.

InitReply ==
    /\ interp = "unstarted"
    /\ moduleLive = FALSE
    /\ pc = [t \in Threads |-> "idle"]
    /\ op = [t \in Threads |-> "none"]
    /\ req = [t \in Threads |-> NoRequest]
    /\ trace = [t \in Threads |-> <<>>]
    /\ cResult = [t \in Threads |-> NoResult]
    /\ ret = [t \in Threads |-> NoRet]
    /\ lifecycle = "unstarted"
    /\ lastLifecycle = "none"
    /\ overlapped = FALSE
    /\ misordered = FALSE
    /\ failedBefore = [t \in Threads |-> FALSE]
    /\ gil = 0
    /\ deepCopy = NoCopy
    /\ \E r \in FetchRequestValues, other \in Tokens, reply \in CReplies, p \in RenderPointers :
           /\ other # r.Token
           /\ wire = [reply |-> reply,
                   fetch |-> <<NoFetchRun(r), NoFetchRun([r EXCEPT !.Token = other])>>,
                   render |-> NoRenderRun(p)]

CallFetch(i) ==
    /\ ~wire.fetch[i].done
    /\ LET f == FetchChatTemplate(wire.fetch[i].req, wire.reply)
       IN wire' = [wire EXCEPT !.fetch[i] =
                       [req |-> wire.fetch[i].req, logs |-> f.logs, err |-> f.err, done |-> TRUE]]
    /\ UNCHANGED <<interp, moduleLive, pc, op, req, trace, cResult, ret, lifecycle,
                   lastLifecycle, overlapped, misordered, failedBefore, gil, deepCopy>>

CallRender ==
    /\ ~wire.render.done
    /\ wire' = [wire EXCEPT !.render =
                    [req |-> wire.render.req,
                     err |-> RenderChatTemplate(wire.render.req, wire.reply), done |-> TRUE]]
    /\ UNCHANGED <<interp, moduleLive, pc, op, req, trace, cResult, ret, lifecycle,
                   lastLifecycle, overlapped, misordered, failedBefore, gil, deepCopy>>

NextReply ==
    \/ \E i \in 1..2 : CallFetch(i)
    \/ CallRender

SpecReply == InitReply /\ [][NextReply]_vars

\* t occurs in s as a run of consecutive characters
Contains(s, t) == \E i \in 0..(Len(s) - Len(t)) : SubSeq(s, i + 1, i + Len(t)) = t

\* the call's token is in none of its log records and not in its error
TokenAbsent(run) ==
    Len(run.req.Token) > 0 =>
        /\ \A i \in 1..Len(run.logs) : ~Contains(run.logs[i].text, run.req.Token)
        /\ ~Contains(run.err.cause.char, run.req.Token)

BothFetched == wire.fetch[1].done /\ wire.fetch[2].done

\* C14 (as claimed): two FetchChatTemplate calls whose requests differ only
\* in Token and that receive the same reply produce the same sequence of log
\* records and the same error, and neither call's token appears in a log
\* record or in the error.
C14_SecretRedaction ==
    BothFetched =>
        /\ wire.fetch[1].logs = wire.fetch[2].logs
        /\ wire.fetch[1].err = wire.fetch[2].err
        /\ TokenAbsent(wire.fetch[1]) /\ TokenAbsent(wire.fetch[2])

\* the two records are one record, or they are the request-allocation record
\* and differ in the byte count alone
SameButByteCount(a, b) ==
    \/ a = b
    \/ /\ a.msg = "Allocated C string for request"
       /\ [a EXCEPT !.count = <<>>] = [b EXCEPT !.count = <<>>]

\* C14 (amended): two FetchChatTemplate calls whose requests differ only in
\* Token and that receive the same reply return the same error and produce
\* the same sequence of log records except for the byte count of the
\* "Allocated C string for request" record, which is the length of the
\* encoded request: the records are identical exactly when the two encoded
\* requests have one length. Neither call's token appears in a log record or
\* in the error.
C14_SecretRedactionAmended ==
    BothFetched =>
        LET a == wire.fetch[1]
            b == wire.fetch[2]
        IN  /\ a.err = b.err
            /\ Len(a.logs) = Len(b.logs)
            /\ \A i \in 1..Len(a.logs) : SameButByteCount(a.logs[i], b.logs[i])
            /\ Len(EncodeFetchRequest(a.req)) = Len(EncodeFetchRequest(b.req))
                   => a.logs = b.logs
            /\ TokenAbsent(a) /\ TokenAbsent(b)

\* Two calls with tokens of different lengths have both returned from
\* decoding the reply, and their log records differ.
C14_Witness ==
    /\ BothFetched
    /\ Len(wire.fetch[1].req.Token) > 0 /\ Len(wire.fetch[2].req.Token) > 0
    /\ Len(wire.fetch[1].req.Token) # Len(wire.fetch[2].req.Token)
    /\ wire.fetch[1].err.text = ErrUnmarshal
    /\ wire.fetch[1].logs # wire.fetch[2].logs

\* the numbers an error value holds
ErrorNumbers(err) == {err.cause.offset[i] : i \in 1..Len(err.cause.offset)}

\* C15 (as claimed): when the reply to RenderChatTemplate or FetchChatTemplate
\* does not decode, the error returned holds the byte length of the reply.
C15_DecodingErrorCarriesLength ==
    /\ \A i \in 1..2 :
           (wire.fetch[i].done /\ wire.fetch[i].err.text = ErrUnmarshal)
               => Len(wire.reply.bytes) \in ErrorNumbers(wire.fetch[i].err)
    /\ (wire.render.done /\ wire.render.err.text = ErrUnmarshal)
           => Len(wire.reply.bytes) \in ErrorNumbers(wire.render.err)

====
